---------------------------- MODULE Spec2Model ----------------------------
(***************************************************************************)
(* Model of the hybrid retrieval core of src/rag/dual_rag.py               *)
(* (class MedicalRAGSystem): the chunker, the BM25 lexical index, the      *)
(* vector collection, hybrid score fusion and the two pickled artifacts.   *)
(*                                                                         *)
(* Five specifications share the module:                                   *)
(*   SpecChunk  chunk_text as a pure function of (text, chunk_size,        *)
(*              overlap), the inputs drawn by InitChunk;                   *)
(*   Spec       one MedicalRAGSystem instance: add_documents and the       *)
(*              three searches, called in any order by a caller that       *)
(*              survives the exceptions the methods raise;                 *)
(*   SpecStore  the facade over its storage directory: processes that      *)
(*              stop and are constructed again (load_index), add_documents *)
(*              with malformed lists and failing writes, save_index,       *)
(*              get_stats, initialize_lab_reference_data and bm25_search;  *)
(*   SpecQuery  the query surface of one instance: add_documents, the      *)
(*              three searches, get_stats, query with its search_type      *)
(*              dispatch, and get_reference_context;                       *)
(*   SpecRace   add_documents taken statement by statement, called by two  *)
(*              threads on one instance at the same time.                  *)
(***************************************************************************)
EXTENDS Integers, Sequences, FiniteSets, TLC

VARIABLES
    text,          \* chunk_text: the text argument, a sequence of characters
    chunk_size,    \* chunk_text: the chunk_size argument
    overlap,       \* chunk_text: the overlap argument
    chunk_ret,     \* chunk_text: NotCalled, or what the call produced
    documents,     \* self.documents
    bm25,          \* self.bm25: None or the BM25Okapi object
    collection,    \* the entries of the chroma collection "medical_reports"
    bm25_file,     \* the file bm25_index.pkl: Absent, or the pickle it holds
    docs_file,     \* the file documents.pkl: Absent, or the pickle it holds
    hash_seed,     \* the str-hash seed of the running process
    ret,           \* the last facade call: its arguments and what it produced
    calls          \* per thread, its add_documents call in progress

chunk_vars  == <<text, chunk_size, overlap, chunk_ret>>
facade_vars == <<documents, bm25, collection, bm25_file, docs_file, hash_seed, ret,
                 calls>>
vars        == <<text, chunk_size, overlap, chunk_ret,
                 documents, bm25, collection, bm25_file, docs_file, hash_seed, ret,
                 calls>>

None      == [status |-> "None"]                    \* self.bm25 = None
Absent    == [exists |-> FALSE, content |-> [intact |-> FALSE, object |-> <<>>]]  \* a file that does not exist
NotCalled == [status |-> "not_called", chunks |-> <<>>]
NoCall    == [op |-> "none"]                        \* no facade call is being observed

\* The threads that call add_documents on the one instance, and a thread
\* that has not called yet.
Threads  == {1, 2}
IdleCall == [pc |-> "idle", docs |-> <<>>, i |-> 0]

Min(a, b) == IF a < b THEN a ELSE b
Max(a, b) == IF a > b THEN a ELSE b

(***************************************************************************)
(* Bounds of the model.                                                    *)
(***************************************************************************)
MaxTextLen == 5      \* characters of the text handed to chunk_text
MaxChunk   == 3      \* chunk_size and overlap range over 0..MaxChunk

(***************************************************************************)
(* chunk_text (src/rag/dual_rag.py:103-113).                               *)
(* A text is a sequence of characters; " " stands for any whitespace.      *)
(***************************************************************************)
Chars == {"a", "b", " "}

Texts == UNION {[1..n -> Chars] : n \in 0..MaxTextLen}

\* str.split(): the maximal runs of non-whitespace characters, in order.
RECURSIVE SplitAcc(_, _, _)
SplitAcc(s, cur, acc) ==
    IF s = <<>>
    THEN IF cur = <<>> THEN acc ELSE Append(acc, cur)
    ELSE IF Head(s) = " "
         THEN SplitAcc(Tail(s), <<>>, IF cur = <<>> THEN acc ELSE Append(acc, cur))
         ELSE SplitAcc(Tail(s), Append(cur, Head(s)), acc)

Split(s) == SplitAcc(s, <<>>, <<>>)

\* ' '.join(words)
RECURSIVE Join(_)
Join(ws) ==
    IF ws = <<>> THEN <<>>
    ELSE IF Len(ws) = 1 THEN ws[1]
    ELSE ws[1] \o <<" ">> \o Join(Tail(ws))

\* A slice that takes the word at its end index too.
SliceInclusive(ws, i, j) == SubSeq(ws, i + 1, Min(j + 1, Len(ws)))

\* words[i:j] for 0 <= i and 0 <= j (Python slice, 0-based, end exclusive).
Slice(ws, i, j) == SubSeq(ws, i + 1, Min(j, Len(ws)))

\* range(0, stop, step) for step > 0, as the sequence of its values.
RangeFromZero(stop, step) ==
    [k \in 1..((stop + step - 1) \div step) |-> (k - 1) * step]

\* A slip of the stride: the overlap added instead of subtracted.
StrideAdded(cs, ov) == cs + ov

\* The step of the loop at line 108: chunk_size - overlap.
Stride(cs, ov) == cs - ov

\* The loop of lines 108-111 over the words of the text, each chunk held as
\* its words; range() raises ValueError for a step of 0 and is empty for a
\* negative step.
ChunkWords(words, cs, ov) ==
    LET step == Stride(cs, ov)
    IN  IF step = 0
        THEN [status |-> "ValueError", chunks |-> <<>>]
        ELSE IF step < 0
        THEN [status |-> "ok", chunks |-> <<>>]
        ELSE LET starts == RangeFromZero(Len(words), step)
                 raw    == [k \in DOMAIN starts |->
                               Slice(words, starts[k], starts[k] + cs)]
             IN  [status |-> "ok",
                  chunks |-> SelectSeq(raw, LAMBDA c : c # <<>>)]

\* chunk_text(text, chunk_size, overlap) for chunk_size >= 0, overlap >= 0:
\* the chunks of text.split(), each joined with single spaces.
ChunkText(t, cs, ov) ==
    LET r == ChunkWords(Split(t), cs, ov)
    IN  [status |-> r.status,
         chunks |-> [k \in DOMAIN r.chunks |-> Join(r.chunks[k])]]

(***************************************************************************)
(* Documents and queries.                                                  *)
(* A content or a query is a whitespace-collapsed text, held as the        *)
(* sequence of its words; lower() acts word by word.                       *)
(***************************************************************************)
MaxTopK == 2         \* top_k ranges over 1..MaxTopK

Doc(i, c) == [id |-> i, type |-> "book_chunk", title |-> "Chunk", content |-> c,
              source |-> "book.txt"]

Pool == {Doc(1, <<"hemoglobin", "low", "iron", "deficiency">>),
         Doc(2, <<"vitamin", "d", "normal", "range">>),
         Doc(3, <<"Iron", "low">>)}

\* The document lists handed to add_documents: the documents of the pool in
\* any order, without repetition (ids are unique), the empty list included.
Corpora ==
    UNION {{c \in [1..n -> Pool] : \A i, j \in 1..n : i # j => c[i] # c[j]}
              : n \in 0..Cardinality(Pool)}

Queries == {<<"hemoglobin", "deficiency">>,
            <<"hemoglobin", "vitamin">>,
            <<"Iron">>,
            <<>>}

\* (bm25_weight, vector_weight) in tenths; <<6, 4>> is the default 0.6 / 0.4.
Weights == {<<6, 4>>, <<3, 7>>}

\* str.lower() on one word.
Lower(w) == IF w = "Iron" THEN "iron" ELSE w

\* text.lower().split() at lines 80, 235 and 277.
Tokenize(c) == [i \in DOMAIN c |-> Lower(c[i])]

\* str(doc['id'])
IdStr(i) == <<"1", "2", "3", "4">>[i]

SeqRange(s) == {s[i] : i \in DOMAIN s}

RECURSIVE SumSeq(_)
SumSeq(s) == IF s = <<>> THEN 0 ELSE Head(s) + SumSeq(Tail(s))

Count(w, s) == Cardinality({i \in DOMAIN s : s[i] = w})

Reverse(s) == [i \in DOMAIN s |-> s[Len(s) + 1 - i]]

\* s[-n:] for n >= 1
LastN(s, n) == SubSeq(s, Max(1, Len(s) - n + 1), Len(s))

\* s[:n] for n >= 0
FirstN(s, n) == SubSeq(s, 1, Min(n, Len(s)))

SetMax(S) == CHOOSE x \in S : \A y \in S : y <= x

\* Sum of f over the set S.
RECURSIVE SumOver(_, _)
SumOver(S, f) ==
    IF S = {} THEN 0
    ELSE LET x == CHOOSE x \in S : TRUE IN f[x] + SumOver(S \ {x}, f)

\* The sequences that list every element of S once.
Orderings(S) == {p \in [1..Cardinality(S) -> S] : \A i, j \in DOMAIN p : i # j => p[i] # p[j]}

(***************************************************************************)
(* BM25Okapi of rank_bm25, built at line 236 and queried at line 278, with *)
(* its defaults k1 = 1.5, b = 0.75, epsilon = 0.25.                        *)
(* Numbers are fixed point: an idf is in 1/1000, a score in 1/100000.      *)
(***************************************************************************)
\* round(1000 * ln(m / 2)) for the odd m the model reaches.
LnHalfMilli(m) ==
    CASE m = 1  -> -693
      [] m = 3  -> 405
      [] m = 5  -> 916
      [] m = 7  -> 1253
      [] m = 9  -> 1504
      [] m = 11 -> 1705

\* math.log(corpus_size - freq + 0.5) - math.log(freq + 0.5)
RawIdf(n, freq) == LnHalfMilli(2 * (n - freq) + 1) - LnHalfMilli(2 * freq + 1)

\* _calc_idf: the idf of every word of the corpus; a negative idf is
\* replaced by epsilon * average_idf.
CalcIdf(n, nd) ==
    LET words       == DOMAIN nd
        raw         == [x \in words |-> RawIdf(n, nd[x])]
        idf_sum     == SumOver(words, raw)
        average_idf == idf_sum \div Cardinality(words)
        eps         == average_idf \div 4
    IN  [w \in words |-> IF raw[w] < 0 THEN eps ELSE raw[w]]

\* BM25Okapi(corpus): the object, or the ZeroDivisionError its constructor
\* raises (avgdl = num_doc / corpus_size on an empty corpus,
\* idf_sum / len(idf) on a corpus without a word).
BM25Okapi(corpus) ==
    LET n       == Len(corpus)
        doc_len == [i \in 1..n |-> Len(corpus[i])]
        num_doc == SumSeq(doc_len)
        words   == UNION {SeqRange(corpus[i]) : i \in 1..n}
        nd      == [w \in words |-> Cardinality({i \in 1..n : w \in SeqRange(corpus[i])})]
    IN  IF n = 0 \/ words = {}
        THEN [status |-> "ZeroDivisionError"]
        ELSE [status      |-> "ok",
              corpus_size |-> n,
              num_doc     |-> num_doc,
              doc_len     |-> doc_len,
              doc_freqs   |-> [i \in 1..n |->
                                 [w \in SeqRange(corpus[i]) |-> Count(w, corpus[i])]],
              idf         |-> CalcIdf(n, nd)]

\* One query term's contribution to the score of document i:
\* idf * f * (k1 + 1) / (f + k1 * (1 - b + b * doc_len / avgdl)),
\* with avgdl = num_doc / corpus_size.
TermScore(index, i, q) ==
    LET f   == IF q \in DOMAIN index.doc_freqs[i] THEN index.doc_freqs[i][q] ELSE 0
        idf == IF q \in DOMAIN index.idf THEN index.idf[q] ELSE 0
        den == 8 * f * index.num_doc + 3 * index.num_doc
                 + 9 * index.doc_len[i] * index.corpus_size
    IN  (idf * ((20 * f * index.num_doc * 1000) \div den)) \div 10

\* BM25Okapi.get_scores(query): one score per document of the index.
GetScores(index, query) ==
    [i \in 1..index.corpus_size |->
        SumSeq([k \in DOMAIN query |-> TermScore(index, i, query[k])])]

(***************************************************************************)
(* OfflineEmbeddingFunction.__call__ (lines 74-98) and the chroma          *)
(* collection (cosine space).  Vector components, cosine distances and     *)
(* similarities are fixed point in 1/1000.                                 *)
(***************************************************************************)
EmbeddingWidth == 384

WordId(w) ==
    CASE w = "hemoglobin" -> 1
      [] w = "low"        -> 2
      [] w = "iron"       -> 3
      [] w = "deficiency" -> 4
      [] w = "vitamin"    -> 5
      [] w = "d"          -> 6
      [] w = "normal"     -> 7
      [] w = "range"      -> 8
      [] OTHER            -> 9

\* hash(word) of the built-in str hash, which the interpreter salts per
\* process with the seed drawn at start-up.
Hash(seed, w) == WordId(w) * (1000 * seed + 37)

RECURSIVE ISqrtIn(_, _, _)
ISqrtIn(x, lo, hi) ==
    IF lo = hi THEN lo
    ELSE LET mid == (lo + hi + 1) \div 2
         IN  IF mid * mid <= x THEN ISqrtIn(x, mid, hi) ELSE ISqrtIn(x, lo, mid - 1)

\* floor(sqrt(x)) for 0 <= x <= 1000000
ISqrt(x) == ISqrtIn(x, 0, 1000)

\* The embedding of one text: a count per bucket hash(word) % 384, divided
\* by the magnitude unless the magnitude is 0.  Only the buckets that hold a
\* word are kept; every other component is 0.
Embed(seed, t) ==
    LET words   == Tokenize(t)
        bucket  == [i \in DOMAIN words |-> Hash(seed, words[i]) % EmbeddingWidth]
        touched == SeqRange(bucket)
        counts  == [b \in touched |-> Cardinality({i \in DOMAIN words : bucket[i] = b})]
        sumsq   == SumOver(touched, [b \in touched |-> counts[b] * counts[b]])
    IN  IF sumsq > 0
        THEN [b \in touched |-> ISqrt((counts[b] * counts[b] * 1000000) \div sumsq)]
        ELSE counts

\* The cosine distance chroma reports for two normalised embeddings:
\* 1 - <a, b>.
Distance(a, b) ==
    LET common == DOMAIN a \cap DOMAIN b
    IN  1000 - (SumOver(common, [x \in common |-> a[x] * b[x]]) \div 1000)

\* The state of the collection self.collection refers to: exists is FALSE
\* once the collection was deleted and not created again.
NoCollection    == [exists |-> FALSE, entries |-> {}]
EmptyCollection == [exists |-> TRUE, entries |-> {}]

EntryIds(coll) == {e.id : e \in coll.entries}

\* An add that stores a document again, under another key, when its id is
\* already in the collection.
CollectionAddAppending(coll, seed, batch) ==
    [coll EXCEPT !.entries =
        coll.entries \cup
        {[id |-> IF IdStr(batch[k].id) \in EntryIds(coll) THEN "copy"
                 ELSE IdStr(batch[k].id),
          embedding |-> Embed(seed, batch[k].content),
          document |-> batch[k].content] : k \in DOMAIN batch}]

\* collection.add(documents=texts, metadatas=..., ids=ids) for one batch: an
\* entry per id, embedded by the embedding function; an id the collection
\* already holds keeps its old entry.
CollectionAdd(coll, seed, batch) ==
    [coll EXCEPT !.entries =
        coll.entries \cup
        {[id |-> IdStr(batch[k].id), embedding |-> Embed(seed, batch[k].content),
          document |-> batch[k].content] :
            k \in {j \in DOMAIN batch : IdStr(batch[j].id) \notin EntryIds(coll)}}]

\* collection.query(query_texts=[query], n_results=n): the min(n, count)
\* nearest entries, nearest first, as (id, distance) pairs.  Entries at the
\* same distance come in an order the index chooses.
CollectionQuery(coll, seed, query, n) ==
    LET q       == Embed(seed, query)
        dist(e) == Distance(q, e.embedding)
    IN  {FirstN([k \in DOMAIN p |-> [id |-> p[k].id, distance |-> dist(p[k])]], n) :
           p \in {o \in Orderings(coll.entries) :
                     \A i, j \in DOMAIN o : i < j => dist(o[i]) <= dist(o[j])}}

(***************************************************************************)
(* bm25_search (lines 271-291).                                            *)
(***************************************************************************)
\* np.argsort(scores): the index orders that sort the scores ascending.
\* numpy's default sort is not stable, so equal scores come in any order.
ArgSort(scores) ==
    {p \in Orderings(DOMAIN scores) :
        \A i, j \in DOMAIN p : i < j => scores[p[i]] <= scores[p[j]]}

\* The loop of lines 283-289 over top_indices: a hit per index of positive
\* score; self.documents[idx] raises IndexError past the end of the table.
Bm25Collect(docs, scores, top_indices) ==
    LET picked == SelectSeq(top_indices, LAMBDA i : scores[i] > 0)
    IN  IF \E k \in DOMAIN picked : picked[k] > Len(docs)
        THEN [status |-> "IndexError", hits |-> <<>>]
        ELSE [status |-> "ok",
              hits   |-> [k \in DOMAIN picked |->
                            [doc |-> docs[picked[k]], score |-> scores[picked[k]]]]]

\* What bm25_search(query, top_k) can produce, top_k >= 1.
Bm25Search(docs, index, query, top_k) ==
    IF index = None
    THEN {[status |-> "ok", hits |-> <<>>]}
    ELSE LET scores == GetScores(index, Tokenize(query))
         IN  {Bm25Collect(docs, scores, Reverse(LastN(p, top_k))) : p \in ArgSort(scores)}

(***************************************************************************)
(* vector_search (lines 293-313).                                          *)
(***************************************************************************)
\* next((d for d in self.documents if str(d['id']) == doc_id), None),
\* as the set holding the document found, or no document.
DocByIdStr(docs, doc_id) ==
    LET at == {i \in DOMAIN docs : IdStr(docs[i].id) = doc_id}
    IN  IF at = {} THEN {} ELSE {docs[CHOOSE i \in at : \A j \in at : i <= j]}

\* The loop of lines 302-308 over one query result.
VectorCollect(docs, found) ==
    LET kept == SelectSeq(found, LAMBDA r : DocByIdStr(docs, r.id) # {})
    IN  [k \in DOMAIN kept |->
            [doc      |-> CHOOSE d \in DocByIdStr(docs, kept[k].id) : TRUE,
             distance |-> kept[k].distance]]

\* A vector_search without the try/except of lines 295-313: the failure of
\* the collection query reaches the caller.
VectorSearchUncaught(docs, coll, seed, query, top_k, backend_ok) ==
    IF backend_ok /\ coll.exists
    THEN {[status |-> "ok", hits |-> VectorCollect(docs, found)] :
             found \in CollectionQuery(coll, seed, query, top_k)}
    ELSE {[status |-> "BackendError", hits |-> <<>>]}

\* What vector_search(query, top_k) can produce.  backend_ok is whether the
\* collection query succeeds; a failure is caught at line 311 and becomes [].
VectorSearch(docs, coll, seed, query, top_k, backend_ok) ==
    IF backend_ok /\ coll.exists
    THEN {[status |-> "ok", hits |-> VectorCollect(docs, found)] :
             found \in CollectionQuery(coll, seed, query, top_k)}
    ELSE {[status |-> "ok", hits |-> <<>>]}

(***************************************************************************)
(* hybrid_search (lines 315-351).  A fused score is in 1/10000.            *)
(***************************************************************************)
\* The 1 of "else 1" at lines 324 and 328, in the unit of a lexical score
\* and of a similarity.
ScoreOne      == 100000
SimilarityOne == 1000

HitIds(hits) == {hits[k].doc.id : k \in DOMAIN hits}

\* {doc['id']: doc['score'] for doc in bm25_results}
Bm25Scores(hits) ==
    [i \in HitIds(hits) |->
        hits[CHOOSE k \in DOMAIN hits :
                /\ hits[k].doc.id = i
                /\ \A h \in DOMAIN hits : hits[h].doc.id = i => h <= k].score]

\* {doc['id']: 1 / (1 + doc['distance']) for doc in vector_results}
VectorScores(hits) ==
    [i \in HitIds(hits) |->
        (SimilarityOne * 1000) \div
        (1000 + hits[CHOOSE k \in DOMAIN hits :
                        /\ hits[k].doc.id = i
                        /\ \A h \in DOMAIN hits : hits[h].doc.id = i => h <= k].distance)]

\* max(scores.values()) if scores else 1
MaxOr(scores, one) ==
    IF DOMAIN scores = {} THEN one ELSE SetMax({scores[i] : i \in DOMAIN scores})

\* A normalisation turned upside down: the maximum over the score.
NormalisedInverted(scores, i, mx) ==
    IF i \in DOMAIN scores /\ scores[i] > 0
    THEN (mx * 1000) \div scores[i]
    ELSE 0

\* (scores.get(doc_id, 0) / max) if max > 0 else 0, in 1/1000
Normalised(scores, i, mx) ==
    IF mx > 0
    THEN ((IF i \in DOMAIN scores THEN scores[i] ELSE 0) * 1000) \div mx
    ELSE 0

\* A fusion that adds the raw scores, without dividing by the maxima.
HybridScoresRaw(bm25_results, vector_results, bm25_weight, vector_weight) ==
    LET bm25_scores   == Bm25Scores(bm25_results)
        vector_scores == VectorScores(vector_results)
        all_doc_ids   == DOMAIN bm25_scores \cup DOMAIN vector_scores
    IN  [i \in all_doc_ids |->
            bm25_weight * (IF i \in DOMAIN bm25_scores THEN bm25_scores[i] ELSE 0)
              + vector_weight * (IF i \in DOMAIN vector_scores THEN vector_scores[i] ELSE 0)]

\* A fusion that subtracts the vector term instead of adding it.
HybridScoresSubtracted(bm25_results, vector_results, bm25_weight, vector_weight) ==
    LET bm25_scores   == Bm25Scores(bm25_results)
        max_bm25      == MaxOr(bm25_scores, ScoreOne)
        vector_scores == VectorScores(vector_results)
        max_vector    == MaxOr(vector_scores, SimilarityOne)
        all_doc_ids   == DOMAIN bm25_scores \cup DOMAIN vector_scores
    IN  [i \in all_doc_ids |->
            bm25_weight * Normalised(bm25_scores, i, max_bm25)
              - vector_weight * Normalised(vector_scores, i, max_vector)]

\* The hybrid_scores dict of lines 331-337.
HybridScores(bm25_results, vector_results, bm25_weight, vector_weight) ==
    LET bm25_scores   == Bm25Scores(bm25_results)
        max_bm25      == MaxOr(bm25_scores, ScoreOne)
        vector_scores == VectorScores(vector_results)
        max_vector    == MaxOr(vector_scores, SimilarityOne)
        all_doc_ids   == DOMAIN bm25_scores \cup DOMAIN vector_scores
    IN  [i \in all_doc_ids |->
            bm25_weight * Normalised(bm25_scores, i, max_bm25)
              + vector_weight * Normalised(vector_scores, i, max_vector)]

\* A sort that forgets reverse=True: the ids by rising score.
SortedIdsAscending(hybrid_scores, top_k) ==
    {FirstN(p, top_k) :
        p \in {o \in Orderings(DOMAIN hybrid_scores) :
                  \A i, j \in DOMAIN o : i < j => hybrid_scores[o[i]] <= hybrid_scores[o[j]]}}

\* sorted(hybrid_scores.items(), key=score, reverse=True)[:top_k]: the ids by
\* falling score; ids of equal score keep the order in which the set
\* all_doc_ids iterates, which is any order.
SortedIds(hybrid_scores, top_k) ==
    {FirstN(p, top_k) :
        p \in {o \in Orderings(DOMAIN hybrid_scores) :
                  \A i, j \in DOMAIN o : i < j => hybrid_scores[o[i]] >= hybrid_scores[o[j]]}}

\* next((d for d in self.documents if d['id'] == doc_id), None)
DocById(docs, doc_id) ==
    LET at == {i \in DOMAIN docs : docs[i].id = doc_id}
    IN  IF at = {} THEN {} ELSE {docs[CHOOSE i \in at : \A j \in at : i <= j]}

\* The loop of lines 342-349.
HybridCollect(docs, hybrid_scores, sorted_ids) ==
    LET kept == SelectSeq(sorted_ids, LAMBDA i : DocById(docs, i) # {})
    IN  [k \in DOMAIN kept |->
            [doc          |-> CHOOSE d \in DocById(docs, kept[k]) : TRUE,
             hybrid_score |-> hybrid_scores[kept[k]]]]

\* What hybrid_search(query, top_k, bm25_weight, vector_weight) can produce:
\* the exception bm25_search raised, or the fused hits, with the two hit
\* lists and the hybrid_scores dict they were fused from.
HybridSearch(docs, index, coll, seed, query, top_k, bm25_weight, vector_weight, backend_ok) ==
    UNION {
      IF b.status # "ok"
      THEN {[status |-> b.status, hits |-> <<>>, bm25_results |-> <<>>,
             vector_results |-> <<>>, hybrid_scores |-> <<>>]}
      ELSE UNION {
        LET hs == HybridScores(b.hits, v.hits, bm25_weight, vector_weight)
        IN  {[status |-> "ok", hits |-> HybridCollect(docs, hs, ids),
              bm25_results |-> b.hits, vector_results |-> v.hits,
              hybrid_scores |-> hs] : ids \in SortedIds(hs, top_k)}
        : v \in VectorSearch(docs, coll, seed, query, 2 * top_k, backend_ok)}
      : b \in Bm25Search(docs, index, query, 2 * top_k)}

(***************************************************************************)
(* add_documents (lines 186-240) with save_index (lines 242-254).          *)
(***************************************************************************)
BatchSize == 100

\* The batches documents[i:i+batch_size] of the loop at line 206.
Batches(docs) ==
    [k \in 1..((Len(docs) + BatchSize - 1) \div BatchSize) |->
        SubSeq(docs, (k - 1) * BatchSize + 1, Min(k * BatchSize, Len(docs)))]

\* A loop that gives up at the first batch collection.add refuses.
RECURSIVE AddBatchesStoppingAtFailure(_, _, _, _, _)
AddBatchesStoppingAtFailure(coll, seed, batches, k, failed) ==
    IF k > Len(batches) \/ k \in failed THEN coll
    ELSE AddBatchesStoppingAtFailure(CollectionAdd(coll, seed, batches[k]),
                                     seed, batches, k + 1, failed)

\* The collection after the loop of lines 206-231, the batches in failed
\* having raised in collection.add.
RECURSIVE AddBatches(_, _, _, _, _)
AddBatches(coll, seed, batches, k, failed) ==
    IF k > Len(batches) THEN coll
    ELSE AddBatches(IF k \in failed THEN coll ELSE CollectionAdd(coll, seed, batches[k]),
                    seed, batches, k + 1, failed)

\* The collection get_or_create_collection returns at line 198 after the
\* delete_collection of line 194 succeeded or raised.
Recreated(coll, delete_ok) ==
    IF delete_ok \/ ~coll.exists THEN EmptyCollection ELSE coll

\* The keys the loop body of lines 208-216 reads with doc[...]; 'source' is
\* read with doc.get and may be missing.
RequiredFields == {"id", "content", "title", "type"}

WellFormed(doc) == RequiredFields \subseteq DOMAIN doc

\* The batches whose list comprehensions (lines 208-216) raise KeyError.
BadBatches(batches) ==
    {k \in DOMAIN batches : \E j \in DOMAIN batches[k] : ~WellFormed(batches[k][j])}

\* pickle.dump / pickle.load: a completed dump holds the object, a dump the
\* process did not finish leaves a file pickle.load cannot read.
Pickle(obj) == [intact |-> TRUE, object |-> <<obj>>]
Truncated   == [intact |-> FALSE, object |-> <<>>]
Unpickle(content) == content.object[1]

\* What the storage can do to save_index.
SaveOutcomes ==
    {"saved",                   \* both files written
     "docs_open_fails",         \* open at line 251 raises: only bm25_index.pkl written
     "killed_in_bm25_write",    \* the process stops inside pickle.dump at line 248
     "killed_between_writes"}   \* the process stops between lines 248 and 251

\* save_index (lines 242-254) on an instance holding index and docs, the
\* files being bf and df before the call.
SaveIndex(index, docs, bf, df, outcome) ==
    LET written_bm25 == [exists |-> TRUE, content |-> Pickle(index)]
        written_docs == [exists |-> TRUE, content |-> Pickle(docs)]
    IN  CASE outcome = "saved" ->
               [status |-> "ok", bm25_file |-> written_bm25, docs_file |-> written_docs]
          [] outcome = "docs_open_fails" ->
               [status |-> "OSError", bm25_file |-> written_bm25, docs_file |-> df]
          [] outcome = "killed_in_bm25_write" ->
               [status |-> "killed",
                bm25_file |-> [exists |-> TRUE, content |-> Truncated],
                docs_file |-> df]
          [] outcome = "killed_between_writes" ->
               [status |-> "killed", bm25_file |-> written_bm25, docs_file |-> df]

\* A load that reads the document table and forgets the lexical index.
LoadIndexWithoutBm25(bf, df) ==
    IF bf.exists /\ df.exists /\ bf.content.intact /\ df.content.intact
    THEN [status |-> "ok", returned |-> TRUE,
          bm25 |-> None, documents |-> Unpickle(df.content)]
    ELSE [status |-> "ok", returned |-> FALSE, bm25 |-> None, documents |-> <<>>]

\* A load that takes whichever file exists.
LoadIndexEither(bf, df) ==
    IF bf.exists \/ df.exists
    THEN [status |-> "ok", returned |-> TRUE,
          bm25 |-> IF bf.exists /\ bf.content.intact THEN Unpickle(bf.content) ELSE None,
          documents |-> IF df.exists /\ df.content.intact THEN Unpickle(df.content) ELSE <<>>]
    ELSE [status |-> "ok", returned |-> FALSE, bm25 |-> None, documents |-> <<>>]

\* load_index (lines 256-269) on a new instance (documents = [], bm25 =
\* None): what it returns or raises, and the fields it leaves.
LoadIndex(bf, df) ==
    IF bf.exists /\ df.exists
    THEN IF ~bf.content.intact
         THEN [status |-> "UnpicklingError", returned |-> FALSE,
               bm25 |-> None, documents |-> <<>>]
         ELSE IF ~df.content.intact
         THEN [status |-> "UnpicklingError", returned |-> FALSE,
               bm25 |-> Unpickle(bf.content), documents |-> <<>>]
         ELSE [status |-> "ok", returned |-> TRUE,
               bm25 |-> Unpickle(bf.content), documents |-> Unpickle(df.content)]
    ELSE [status |-> "ok", returned |-> FALSE, bm25 |-> None, documents |-> <<>>]

\* add_documents(docs) (lines 186-240) on an instance whose index is
\* old_bm25, whose collection is coll and whose files are bf and df.  env says
\* what the backend and the storage do: whether delete_collection and
\* get_or_create_collection raise, which batches collection.add refuses, and
\* the outcome of save_index.  An exception leaves the method at its line, the
\* assignments made before it kept.
AddDocumentsRun(docs, old_bm25, coll, seed, bf, df, env) ==
    LET batches == Batches(docs)
        bad     == BadBatches(batches)
        stop    == IF bad = {} THEN Len(batches) + 1
                   ELSE CHOOSE k \in bad : \A j \in bad : k <= j
        added   == AddBatches(Recreated(coll, ~env.delete_fails), seed,
                              SubSeq(batches, 1, stop - 1), 1, env.failed)
        index   == BM25Okapi([i \in DOMAIN docs |-> Tokenize(docs[i].content)])
        saved   == SaveIndex(index, docs, bf, df, env.save)
        raised(status, c) ==
            [status |-> status, documents |-> docs, bm25 |-> old_bm25,
             collection |-> c, bm25_file |-> bf, docs_file |-> df]
    IN  IF env.create_fails
        THEN raised("BackendError", IF env.delete_fails THEN coll ELSE NoCollection)
        ELSE IF bad # {} THEN raised("KeyError", added)
        ELSE IF index.status # "ok" THEN raised(index.status, added)
        ELSE [status |-> saved.status, documents |-> docs, bm25 |-> index,
              collection |-> added,
              bm25_file |-> saved.bm25_file, docs_file |-> saved.docs_file]

\* A facade constructed over an empty storage directory (lines 17-61):
\* load_index finds no artifact.
FacadeIdle ==
    /\ documents = <<>>
    /\ bm25 = None
    /\ collection = EmptyCollection
    /\ bm25_file = Absent
    /\ docs_file = Absent
    /\ hash_seed = 1
    /\ ret = NoCall
    /\ calls = [t \in Threads |-> IdleCall]

InitChunk ==
    /\ text \in Texts
    /\ chunk_size \in 0..MaxChunk
    /\ overlap \in 0..MaxChunk
    /\ chunk_ret = NotCalled
    /\ FacadeIdle

CallChunkText ==
    /\ chunk_ret = NotCalled
    /\ chunk_ret' = ChunkText(text, chunk_size, overlap)
    /\ UNCHANGED <<text, chunk_size, overlap>>
    /\ UNCHANGED facade_vars

NextChunk == CallChunkText

SpecChunk == InitChunk /\ [][NextChunk]_vars

(***************************************************************************)
(* The facade: one instance, its methods called in any order.              *)
(***************************************************************************)
Init ==
    /\ text = <<>>
    /\ chunk_size = 0
    /\ overlap = 0
    /\ chunk_ret = NotCalled
    /\ FacadeIdle

\* add_documents(docs) for a list of lists and the outcomes the storage can
\* give to save_index.
AddDocumentsFrom(lists, saves) ==
    /\ ret = NoCall
    /\ \E docs \in lists, delete_fails \in BOOLEAN, create_fails \in BOOLEAN,
          save \in saves :
      \E failed \in SUBSET DOMAIN Batches(docs) :
        LET env == [delete_fails |-> delete_fails, create_fails |-> create_fails,
                    failed |-> failed, save |-> save]
        IN \E r \in {AddDocumentsRun(docs, bm25, collection, hash_seed,
                                   bm25_file, docs_file, env)} :
            /\ documents' = r.documents
            /\ bm25' = r.bm25
            /\ collection' = r.collection
            /\ bm25_file' = r.bm25_file
            /\ docs_file' = r.docs_file
            /\ ret' = [op |-> "add_documents", docs |-> docs, status |-> r.status,
                       env |-> env]
            /\ UNCHANGED hash_seed
            /\ UNCHANGED <<chunk_vars, calls>>

\* add_documents with a well-formed list on a storage that takes the writes.
AddDocuments == AddDocumentsFrom(Corpora, {"saved"})

CallBm25Search ==
    /\ ret = NoCall
    /\ \E q \in Queries, k \in 1..MaxTopK :
      \E r \in Bm25Search(documents, bm25, q, k) :
        /\ ret' = [op |-> "bm25_search", query |-> q, top_k |-> k,
                   status |-> r.status, hits |-> r.hits]
        /\ UNCHANGED <<documents, bm25, collection, bm25_file, docs_file, hash_seed>>
        /\ UNCHANGED <<chunk_vars, calls>>

\* A vector_search that creates the collection when it is missing.
CallVectorSearchCreating ==
    /\ ret = NoCall
    /\ \E q \in Queries, k \in 1..MaxTopK, backend_ok \in BOOLEAN :
      \E r \in VectorSearch(documents, collection, hash_seed, q, k, backend_ok) :
        /\ ret' = [op |-> "vector_search", query |-> q, top_k |-> k,
                   backend_ok |-> backend_ok /\ collection.exists,
                   status |-> r.status, hits |-> r.hits]
        /\ collection' = IF collection.exists THEN collection ELSE EmptyCollection
        /\ UNCHANGED <<documents, bm25, bm25_file, docs_file, hash_seed>>
        /\ UNCHANGED <<chunk_vars, calls>>

CallVectorSearch ==
    /\ ret = NoCall
    /\ \E q \in Queries, k \in 1..MaxTopK, backend_ok \in BOOLEAN :
      \E r \in VectorSearch(documents, collection, hash_seed, q, k, backend_ok) :
        /\ ret' = [op |-> "vector_search", query |-> q, top_k |-> k,
                   backend_ok |-> backend_ok /\ collection.exists,
                   status |-> r.status, hits |-> r.hits]
        /\ UNCHANGED <<documents, bm25, collection, bm25_file, docs_file, hash_seed>>
        /\ UNCHANGED <<chunk_vars, calls>>

CallHybridSearch ==
    /\ ret = NoCall
    /\ \E q \in Queries, k \in 1..MaxTopK, w \in Weights, backend_ok \in BOOLEAN :
      \E r \in HybridSearch(documents, bm25, collection, hash_seed, q, k,
                            w[1], w[2], backend_ok) :
        /\ ret' = [op |-> "hybrid_search", query |-> q, top_k |-> k,
                   bm25_weight |-> w[1], vector_weight |-> w[2],
                   backend_ok |-> backend_ok /\ collection.exists,
                   status |-> r.status, hits |-> r.hits,
                   bm25_results |-> r.bm25_results,
                   vector_results |-> r.vector_results,
                   hybrid_scores |-> r.hybrid_scores]
        /\ UNCHANGED <<documents, bm25, collection, bm25_file, docs_file, hash_seed>>
        /\ UNCHANGED <<chunk_vars, calls>>

\* The process behind ret has stopped: it was killed, or the constructor
\* raised and there is no instance.
Stopped(r) ==
    /\ r # NoCall
    /\ \/ r.status = "killed"
       \/ r.op = "__init__" /\ r.status # "ok"

\* The caller has taken the result (or the exception) of its last call and
\* goes on to the next one.
Return ==
    /\ ret # NoCall
    /\ ~Stopped(ret)
    /\ ret' = NoCall
    /\ UNCHANGED <<documents, bm25, collection, bm25_file, docs_file, hash_seed>>
    /\ UNCHANGED <<chunk_vars, calls>>

(***************************************************************************)
(* The facade over its storage directory: construction with load_index,    *)
(* save_index, get_stats, initialize_lab_reference_data, and processes     *)
(* that stop and start again.                                              *)
(***************************************************************************)
MaxRetries == 1      \* retries ranges over 0..MaxRetries

\* The str-hash seeds a process can start with (PYTHONHASHSEED is random).
Seeds == {1, 2}

PoolDoc(i) == CHOOSE d \in Pool : d.id = i

\* A document without its 'title'.
Untitled == [id |-> 4, type |-> "book_chunk", content |-> <<"iron", "normal">>,
             source |-> "book.txt"]

\* The lists handed to add_documents in the storage lifecycle.
StoreLists == {<<>>,
               <<PoolDoc(1)>>,
               <<PoolDoc(3), PoolDoc(1), PoolDoc(2)>>,
               <<PoolDoc(2), Untitled>>}

\* The default chunk_size and overlap of process_book (line 115).
DefaultChunkSize == 1000
DefaultOverlap   == 200

\* What process_book reads from the reference file: nothing, whitespace
\* only, or a short text.
Books == {[content_empty |-> TRUE,  words |-> <<>>],
          [content_empty |-> FALSE, words |-> <<>>],
          [content_empty |-> FALSE, words |-> <<"hemoglobin", "normal", "range">>]}

\* get_stats() (lines 462-468); collection.count() raises when the backend
\* fails or the collection is gone.
GetStats(docs, coll, backend_ok) ==
    IF backend_ok /\ coll.exists
    THEN [status |-> "ok", total_documents |-> Len(docs),
          collection_count |-> Cardinality(coll.entries)]
    ELSE [status |-> "BackendError", total_documents |-> 0, collection_count |-> 0]

CleanEnv == [delete_fails |-> FALSE, create_fails |-> FALSE, failed |-> {},
             save |-> "saved"]

\* What can happen to one attempt of process_book: the read of the file
\* raises, or add_documents meets env; timeout says whether the message of
\* a backend exception contains "timeout".
Attempts ==
    {[read_fails |-> FALSE, timeout |-> FALSE, env |-> CleanEnv],
     [read_fails |-> TRUE,  timeout |-> FALSE, env |-> CleanEnv],
     [read_fails |-> FALSE, timeout |-> TRUE,  env |-> [CleanEnv EXCEPT !.create_fails = TRUE]],
     [read_fails |-> FALSE, timeout |-> FALSE, env |-> [CleanEnv EXCEPT !.create_fails = TRUE]],
     [read_fails |-> FALSE, timeout |-> FALSE, env |-> [CleanEnv EXCEPT !.failed = {1}]]}

\* process_book(pdf_path) (lines 115-160) on an instance in state st.
ProcessBook(book, st, seed, a) ==
    IF a.read_fails
    THEN [st EXCEPT !.status = "IOError"]
    ELSE IF book.content_empty
    THEN [st EXCEPT !.status = "ok"]
    ELSE LET chunks == ChunkWords(book.words, DefaultChunkSize, DefaultOverlap).chunks
             docs   == [i \in DOMAIN chunks |-> Doc(i, chunks[i])]
         IN  AddDocumentsRun(docs, st.bm25, st.collection, seed,
                             st.bm25_file, st.docs_file, a.env)

\* A retry loop that raises the last failure instead of giving up quietly.
RECURSIVE RunAttemptsRaising(_, _, _, _, _)
RunAttemptsRaising(book, st, seed, attempts, k) ==
    LET r == ProcessBook(book, st, seed, attempts[k])
    IN  IF r.status \in {"ok", "killed"}
        THEN [state |-> r, made |-> k]
        ELSE IF attempts[k].timeout /\ r.status = "BackendError" /\ k < Len(attempts)
        THEN RunAttemptsRaising(book, r, seed, attempts, k + 1)
        ELSE [state |-> r, made |-> k]

\* The retry loop of lines 170-182, attempts[k] being what the k-th call of
\* process_book meets; made counts the calls of process_book.
RECURSIVE RunAttempts(_, _, _, _, _)
RunAttempts(book, st, seed, attempts, k) ==
    LET r == ProcessBook(book, st, seed, attempts[k])
    IN  IF r.status \in {"ok", "killed"}
        THEN [state |-> r, made |-> k]
        ELSE IF attempts[k].timeout /\ r.status = "BackendError" /\ k < Len(attempts)
        THEN RunAttempts(book, r, seed, attempts, k + 1)
        ELSE [state |-> [r EXCEPT !.status = "ok"], made |-> k]

\* A bootstrap that does not look at the document count first.
InitializeLabReferenceDataRunUnguarded(st, seed, backend_ok, pdf_exists, book, attempts) ==
    IF ~pdf_exists
    THEN [state |-> [st EXCEPT !.status = "ok"], made |-> 0]
    ELSE RunAttempts(book, st, seed, attempts, 1)

\* initialize_lab_reference_data(pdf_path, retries) (lines 162-184).
InitializeLabReferenceDataRun(st, seed, backend_ok, pdf_exists, book, attempts) ==
    LET stats == GetStats(st.documents, st.collection, backend_ok)
    IN  IF stats.status # "ok"
        THEN [state |-> [st EXCEPT !.status = stats.status], made |-> 0]
        ELSE IF stats.total_documents > 0 \/ ~pdf_exists
        THEN [state |-> [st EXCEPT !.status = "ok"], made |-> 0]
        ELSE RunAttempts(book, st, seed, attempts, 1)

\* The fields of the running instance and its files, as one record.
Fields ==
    [status |-> "ok", documents |-> documents, bm25 |-> bm25,
     collection |-> collection, bm25_file |-> bm25_file, docs_file |-> docs_file]

\* A new process constructs the facade over the storage directory (lines
\* 17-61): the persisted collection is opened (deleted and created again on
\* an embedding function conflict), documents = [], bm25 = None, then
\* load_index.
Construct ==
    /\ ret = NoCall \/ Stopped(ret)
    /\ \E seed \in Seeds, conflict \in BOOLEAN, delete_fails \in BOOLEAN :
      \E l \in {LoadIndex(bm25_file, docs_file)} :
            /\ hash_seed' = seed
            /\ IF conflict /\ delete_fails /\ collection.exists
               THEN /\ UNCHANGED collection
                    /\ documents' = <<>>
                    /\ bm25' = None
                    /\ ret' = [op |-> "__init__", status |-> "ValueError",
                               loaded |-> FALSE]
               ELSE /\ collection' = IF conflict \/ ~collection.exists
                                     THEN EmptyCollection ELSE collection
                    /\ documents' = l.documents
                    /\ bm25' = l.bm25
                    /\ ret' = [op |-> "__init__", status |-> l.status,
                               loaded |-> l.returned]
            /\ UNCHANGED <<bm25_file, docs_file>>
            /\ UNCHANGED <<chunk_vars, calls>>

\* add_documents in the storage lifecycle: any list, any storage outcome.
AddDocumentsStored == AddDocumentsFrom(StoreLists, SaveOutcomes)

CallSaveIndex ==
    /\ ret = NoCall
    /\ \E outcome \in SaveOutcomes :
      \E r \in {SaveIndex(bm25, documents, bm25_file, docs_file, outcome)} :
            /\ bm25_file' = r.bm25_file
            /\ docs_file' = r.docs_file
            /\ ret' = [op |-> "save_index", status |-> r.status]
            /\ UNCHANGED <<documents, bm25, collection, hash_seed>>
            /\ UNCHANGED <<chunk_vars, calls>>

CallGetStats ==
    /\ ret = NoCall
    /\ \E backend_ok \in BOOLEAN :
      \E r \in {GetStats(documents, collection, backend_ok)} :
            /\ ret' = [op |-> "get_stats", status |-> r.status,
                       total_documents |-> r.total_documents,
                       collection_count |-> r.collection_count]
            /\ UNCHANGED <<documents, bm25, collection, bm25_file, docs_file, hash_seed>>
            /\ UNCHANGED <<chunk_vars, calls>>

\* A file that does not exist is never read, and for a file without content
\* only the clean attempt is drawn (a failing read is drawn with the text).
InitializeLabReferenceData ==
    /\ ret = NoCall
    /\ \E backend_ok \in BOOLEAN,
          pdf_exists \in BOOLEAN :
      \E book \in (IF pdf_exists THEN Books ELSE {CHOOSE b \in Books : b.content_empty}),
         retries \in 0..MaxRetries :
      \E attempts \in [1..(retries + 1) ->
                          IF pdf_exists /\ ~book.content_empty
                          THEN Attempts ELSE {CHOOSE a \in Attempts : ~a.read_fails /\ a.env = CleanEnv}] :
      \E r \in {InitializeLabReferenceDataRun(Fields, hash_seed, backend_ok,
                                               pdf_exists, book, attempts)} :
            /\ documents' = r.state.documents
            /\ bm25' = r.state.bm25
            /\ collection' = r.state.collection
            /\ bm25_file' = r.state.bm25_file
            /\ docs_file' = r.state.docs_file
            /\ ret' = [op |-> "initialize_lab_reference_data",
                       status |-> r.state.status, retries |-> retries,
                       made |-> r.made]
            /\ UNCHANGED hash_seed
            /\ UNCHANGED <<chunk_vars, calls>>

Next ==
    \/ AddDocuments
    \/ CallBm25Search
    \/ CallVectorSearch
    \/ CallHybridSearch
    \/ Return

Spec == Init /\ [][Next]_vars

NextStore ==
    \/ Construct
    \/ AddDocumentsStored
    \/ CallSaveIndex
    \/ CallGetStats
    \/ InitializeLabReferenceData
    \/ CallBm25Search
    \/ Return

SpecStore == Init /\ [][NextStore]_vars

(***************************************************************************)
(* The query surface: query (lines 433-460) with generate_response (lines  *)
(* 353-399), and get_reference_context (lines 401-416).                    *)
(***************************************************************************)
MaxTests == 2        \* get_reference_context takes up to MaxTests test names

\* The default bm25_weight and vector_weight of hybrid_search, in tenths.
DefaultBm25Weight   == 6
DefaultVectorWeight == 4

\* The values of search_type a caller passes: the three the code and its
\* callers name, and two the code does not know.
SearchTypes == {"bm25", "vector", "hybrid", "lexical", "semantic"}

\* A corpus of two documents with the same content under different ids.
IronTwice == <<Doc(3, <<"Iron", "low">>), Doc(4, <<"Iron", "low">>)>>

\* The lists ingested before the queries.
QueryLists == {<<>>,
               <<PoolDoc(1)>>,
               <<PoolDoc(1), PoolDoc(2), PoolDoc(3)>>,
               IronTwice}

\* A dispatch that takes "lexical" for the lexical search as well.
SearchMethodByMeaning(search_type) ==
    IF search_type \in {"bm25", "lexical"} THEN "bm25_search"
    ELSE IF search_type = "vector" THEN "vector_search"
    ELSE "hybrid_search"

\* The if / elif / else of lines 439-444: the search method query calls.
SearchMethod(search_type) ==
    IF search_type = "bm25" THEN "bm25_search"
    ELSE IF search_type = "vector" THEN "vector_search"
    ELSE "hybrid_search"

\* generate_response(query, context_docs) without research findings: the
\* fixed sentence for no context, the completion, or the error text the
\* except branch returns.  doc['content'] raises for a hit without content.
GenerateResponse(context_docs, llm_ok) ==
    IF context_docs = <<>>
    THEN [status |-> "ok", response |-> "No relevant information found"]
    ELSE IF \E k \in DOMAIN context_docs : "content" \notin DOMAIN context_docs[k].doc
    THEN [status |-> "KeyError", response |-> ""]
    ELSE IF llm_ok
    THEN [status |-> "ok", response |-> "completion"]
    ELSE [status |-> "ok", response |-> "Error generating response"]

\* query(question, search_type, top_k): the search chosen by search_type, the
\* print loop over the hits (doc['title']) and generate_response.
Query(docs, index, coll, seed, question, search_type, top_k, backend_ok, llm_ok) ==
    LET method == SearchMethod(search_type)
        found  ==
          IF method = "bm25_search"
          THEN {[status |-> r.status, hits |-> r.hits] :
                   r \in Bm25Search(docs, index, question, top_k)}
          ELSE IF method = "vector_search"
          THEN {[status |-> r.status, hits |-> r.hits] :
                   r \in VectorSearch(docs, coll, seed, question, top_k, backend_ok)}
          ELSE {[status |-> r.status, hits |-> r.hits] :
                   r \in HybridSearch(docs, index, coll, seed, question, top_k,
                                      DefaultBm25Weight, DefaultVectorWeight,
                                      backend_ok)}
    IN  {IF f.status # "ok"
         THEN [status |-> f.status, method |-> method, retrieved_docs |-> <<>>,
               response |-> ""]
         ELSE IF \E k \in DOMAIN f.hits : "title" \notin DOMAIN f.hits[k].doc
         THEN [status |-> "KeyError", method |-> method, retrieved_docs |-> <<>>,
               response |-> ""]
         ELSE LET g == GenerateResponse(f.hits, llm_ok)
              IN  [status |-> g.status, method |-> method,
                   retrieved_docs |-> IF g.status = "ok" THEN f.hits ELSE <<>>,
                   response |-> g.response]
         : f \in found}

\* The loop of lines 404-406: one hybrid_search per test name, in order,
\* with the default weights; backend[i] says whether the vector backend
\* answers during the i-th search.
RECURSIVE HybridRuns(_, _, _, _, _, _, _)
HybridRuns(docs, index, coll, seed, test_names, top_k, backend) ==
    IF test_names = <<>>
    THEN {<<>>}
    ELSE {<<r>> \o rest :
            r \in HybridSearch(docs, index, coll, seed, Head(test_names), top_k,
                               DefaultBm25Weight, DefaultVectorWeight,
                               Head(backend)),
            rest \in HybridRuns(docs, index, coll, seed, Tail(test_names), top_k,
                                Tail(backend))}

\* all_results.extend(results) over the searches made.
RECURSIVE Extend(_)
Extend(runs) == IF runs = <<>> THEN <<>> ELSE Head(runs).hits \o Extend(Tail(runs))

\* A removal of duplicates that keeps the last hit of a content, not the
\* first.
RECURSIVE UniqueByContentKeepingLast(_, _, _)
UniqueByContentKeepingLast(all_results, unique_results, seen_content) ==
    IF all_results = <<>>
    THEN unique_results
    ELSE LET res  == Head(all_results)
             kept == SelectSeq(unique_results,
                               LAMBDA u : u.doc.content # res.doc.content)
         IN  UniqueByContentKeepingLast(Tail(all_results), Append(kept, res),
                                        seen_content \cup {res.doc.content})

\* The loop of lines 409-414: a hit is kept when its content was not seen.
RECURSIVE UniqueByContent(_, _, _)
UniqueByContent(all_results, unique_results, seen_content) ==
    IF all_results = <<>>
    THEN unique_results
    ELSE LET res == Head(all_results)
         IN  IF res.doc.content \notin seen_content
             THEN UniqueByContent(Tail(all_results), Append(unique_results, res),
                                  seen_content \cup {res.doc.content})
             ELSE UniqueByContent(Tail(all_results), unique_results, seen_content)

\* The position of the first search that raised, or 0.
FirstRaised(runs) ==
    LET bad == {i \in DOMAIN runs : runs[i].status # "ok"}
    IN  IF bad = {} THEN 0 ELSE CHOOSE i \in bad : \A j \in bad : i <= j

\* get_reference_context(test_names, top_k): the exception of the first
\* search that raised, or the hits of all searches without duplicates.
GetReferenceContext(docs, index, coll, seed, test_names, top_k, backend) ==
    {LET raised == FirstRaised(runs)
     IN  IF raised > 0
         THEN [status |-> runs[raised].status, per_test |-> SubSeq(runs, 1, raised),
               hits |-> <<>>]
         ELSE [status |-> "ok", per_test |-> runs,
               hits |-> UniqueByContent(Extend(runs), <<>>, {})]
     : runs \in HybridRuns(docs, index, coll, seed, test_names, top_k, backend)}

AddDocumentsQueried == AddDocumentsFrom(QueryLists, {"saved"})

CallQuery ==
    /\ ret = NoCall
    /\ \E q \in Queries, t \in SearchTypes, k \in 1..MaxTopK,
          backend_ok \in BOOLEAN, llm_ok \in BOOLEAN :
      \E r \in Query(documents, bm25, collection, hash_seed, q, t, k,
                     backend_ok, llm_ok) :
        /\ ret' = [op |-> "query", query |-> q, search_type |-> t, top_k |-> k,
                   backend_ok |-> backend_ok, llm_ok |-> llm_ok,
                   status |-> r.status, method |-> r.method,
                   retrieved_docs |-> r.retrieved_docs, response |-> r.response]
        /\ UNCHANGED <<documents, bm25, collection, bm25_file, docs_file, hash_seed>>
        /\ UNCHANGED <<chunk_vars, calls>>

CallGetReferenceContext ==
    /\ ret = NoCall
    /\ \E n \in 0..MaxTests, k \in 1..MaxTopK :
      \E test_names \in [1..n -> Queries], backend \in [1..n -> BOOLEAN] :
        \E r \in GetReferenceContext(documents, bm25, collection, hash_seed,
                                     test_names, k, backend) :
          /\ ret' = [op |-> "get_reference_context", test_names |-> test_names,
                     top_k |-> k, backend |-> backend, status |-> r.status,
                     per_test |-> r.per_test, hits |-> r.hits]
          /\ UNCHANGED <<documents, bm25, collection, bm25_file, docs_file, hash_seed>>
          /\ UNCHANGED <<chunk_vars, calls>>

NextQuery ==
    \/ AddDocumentsQueried
    \/ CallBm25Search
    \/ CallVectorSearch
    \/ CallHybridSearch
    \/ CallGetStats
    \/ CallQuery
    \/ CallGetReferenceContext
    \/ Return

SpecQuery == Init /\ [][NextQuery]_vars

(***************************************************************************)
(* add_documents statement by statement (lines 186-240, save_index 242-254) *)
(* called once by each of two threads on the same instance, over the same  *)
(* storage directory.  self.documents, self.bm25, self.collection and the  *)
(* files are shared; the documents argument and the loop index are local.  *)
(* calls[t].pc is the statement thread t executes next, calls[t].i the     *)
(* batch it handles next.  A dump into a file is taken as one step.        *)
(***************************************************************************)
\* The lists the two threads ingest.
RaceLists == {<<PoolDoc(1)>>,
              <<PoolDoc(2), PoolDoc(3)>>,
              <<PoolDoc(3), PoolDoc(1)>>,
              <<PoolDoc(2), Untitled>>,
              <<>>}

\* The statements of a call in the order the method reaches them.
Ended(c)  == c.pc \in {"done", "raised"}
InCall(c) == c.pc \notin {"idle", "done", "raised"}

\* An add_documents that waits until no other call is in progress.
BeginLocked(t) ==
    /\ calls[t].pc = "idle"
    /\ \A u \in Threads \ {t} : ~InCall(calls[u])
    /\ \E docs \in RaceLists :
        /\ documents' = docs
        /\ calls' = [calls EXCEPT ![t] = [pc |-> "delete", docs |-> docs, i |-> 1]]
    /\ UNCHANGED <<bm25, collection, bm25_file, docs_file, hash_seed, ret>>
    /\ UNCHANGED chunk_vars

\* Line 188: self.documents = documents.
Begin(t) ==
    /\ calls[t].pc = "idle"
    /\ \E docs \in RaceLists :
        /\ documents' = docs
        /\ calls' = [calls EXCEPT ![t] = [pc |-> "delete", docs |-> docs, i |-> 1]]
    /\ UNCHANGED <<bm25, collection, bm25_file, docs_file, hash_seed, ret>>
    /\ UNCHANGED chunk_vars

\* Lines 193-196: delete_collection, an exception swallowed.
DeleteCollection(t) ==
    /\ calls[t].pc = "delete"
    /\ \E delete_fails \in BOOLEAN :
        collection' = IF delete_fails \/ ~collection.exists
                      THEN collection ELSE NoCollection
    /\ calls' = [calls EXCEPT ![t].pc = "create"]
    /\ UNCHANGED <<documents, bm25, bm25_file, docs_file, hash_seed, ret>>
    /\ UNCHANGED chunk_vars

\* Lines 198-202: self.collection = get_or_create_collection(...), which
\* leaves the method when it raises.
CreateCollection(t) ==
    /\ calls[t].pc = "create"
    /\ \E create_fails \in BOOLEAN :
        IF create_fails
        THEN /\ calls' = [calls EXCEPT ![t].pc = "raised"]
             /\ UNCHANGED collection
        ELSE /\ collection' = IF collection.exists THEN collection
                              ELSE EmptyCollection
             /\ calls' = [calls EXCEPT ![t].pc =
                            IF Batches(calls[t].docs) = <<>> THEN "build" ELSE "add"]
    /\ UNCHANGED <<documents, bm25, bm25_file, docs_file, hash_seed, ret>>
    /\ UNCHANGED chunk_vars

\* One turn of the loop of lines 206-231: the list comprehensions, then
\* self.collection.add in its try.  The add raises when the backend refuses
\* it or the collection was deleted meanwhile; the loop goes on.
AddBatch(t) ==
    /\ calls[t].pc = "add"
    /\ \E batches \in {Batches(calls[t].docs)} :
        \E k \in {calls[t].i} :
          IF k \in BadBatches(batches)
          THEN /\ calls' = [calls EXCEPT ![t].pc = "raised"]
               /\ UNCHANGED collection
          ELSE /\ \E add_fails \in BOOLEAN :
                    IF add_fails \/ ~collection.exists
                    THEN UNCHANGED collection
                    ELSE \E added \in {CollectionAdd(collection, hash_seed, batches[k])} :
                            collection' = added
               /\ calls' = [calls EXCEPT ![t].i = k + 1,
                                         ![t].pc = IF k = Len(batches)
                                                   THEN "build" ELSE "add"]
    /\ UNCHANGED <<documents, bm25, bm25_file, docs_file, hash_seed, ret>>
    /\ UNCHANGED chunk_vars

\* Lines 235-236: the index over the documents argument.
BuildBm25(t) ==
    /\ calls[t].pc = "build"
    /\ \E index \in {BM25Okapi([i \in DOMAIN calls[t].docs |->
                                   Tokenize(calls[t].docs[i].content)])} :
        IF index.status # "ok"
        THEN /\ calls' = [calls EXCEPT ![t].pc = "raised"]
             /\ UNCHANGED bm25
        ELSE /\ bm25' = index
             /\ calls' = [calls EXCEPT ![t].pc = "write_bm25"]
    /\ UNCHANGED <<documents, collection, bm25_file, docs_file, hash_seed, ret>>
    /\ UNCHANGED chunk_vars

\* Lines 247-248 of save_index: self.bm25 dumped into bm25_index.pkl.
WriteBm25File(t) ==
    /\ calls[t].pc = "write_bm25"
    /\ bm25_file' = [exists |-> TRUE, content |-> Pickle(bm25)]
    /\ calls' = [calls EXCEPT ![t].pc = "write_docs"]
    /\ UNCHANGED <<documents, bm25, collection, docs_file, hash_seed, ret>>
    /\ UNCHANGED chunk_vars

\* Lines 251-252 of save_index: self.documents dumped into documents.pkl,
\* unless the open raises.
WriteDocsFile(t) ==
    /\ calls[t].pc = "write_docs"
    /\ \E open_fails \in BOOLEAN :
        IF open_fails
        THEN /\ calls' = [calls EXCEPT ![t].pc = "raised"]
             /\ UNCHANGED docs_file
        ELSE /\ docs_file' = [exists |-> TRUE, content |-> Pickle(documents)]
             /\ calls' = [calls EXCEPT ![t].pc = "done"]
    /\ UNCHANGED <<documents, bm25, collection, bm25_file, hash_seed, ret>>
    /\ UNCHANGED chunk_vars

\* The next statement of thread t.
Step(t) ==
    \/ Begin(t)
    \/ DeleteCollection(t)
    \/ CreateCollection(t)
    \/ AddBatch(t)
    \/ BuildBm25(t)
    \/ WriteBm25File(t)
    \/ WriteDocsFile(t)

NextRace == \E t \in Threads : Step(t)

SpecRace == Init /\ [][NextRace]_vars

(***************************************************************************)
(* Claims about chunk_text, checked under SpecChunk.                       *)
(***************************************************************************)
ChunkCalled == chunk_ret # NotCalled

WordsOf(c) == Split(c)

\* C1: for chunk_size > overlap >= 0 chunk_text returns chunks of at most
\* chunk_size words each, and every input word, by position, lies in at
\* least one chunk (chunk k, counted from 0, starts at word k * stride).
C1_ChunkBoundedAndCovering ==
    (ChunkCalled /\ chunk_size > overlap) =>
        LET words == Split(text)
            step  == chunk_size - overlap
            cs    == chunk_ret.chunks
        IN  /\ chunk_ret.status = "ok"
            /\ \A k \in DOMAIN cs : Len(WordsOf(cs[k])) <= chunk_size
            /\ \A p \in DOMAIN words :
                   \E k \in DOMAIN cs :
                       LET off == (k - 1) * step
                       IN  /\ p - off \in DOMAIN WordsOf(cs[k])
                           /\ WordsOf(cs[k])[p - off] = words[p]

\* C1 witness: a call with overlap > 0 whose text has more words than one
\* chunk holds, so several overlapping chunks were produced.
C1_Witness ==
    /\ ChunkCalled
    /\ chunk_size > overlap
    /\ overlap > 0
    /\ Len(Split(text)) > chunk_size
    /\ Len(chunk_ret.chunks) >= 2

\* C2: chunk_text called with chunk_size <= overlap raises a configuration
\* error for every input text and never returns a chunk list silently.
C2_RejectsNonPositiveStride ==
    (ChunkCalled /\ chunk_size <= overlap) => chunk_ret.status # "ok"

(***************************************************************************)
(* Claims about the facade, checked under Spec.                            *)
(***************************************************************************)
TokenizedCorpus(docs) == [i \in DOMAIN docs |-> Tokenize(docs[i].content)]

\* The lexical index was built over exactly the current document table.
IndexMatchesTable == bm25 = BM25Okapi(TokenizedCorpus(documents))

HitDocs(hits) == [k \in DOMAIN hits |-> hits[k].doc]

\* The position of document d in self.documents (ids are unique).
CorpusIndex(d) == CHOOSE i \in DOMAIN documents : documents[i] = d

ScenarioCorpus == <<Doc(1, <<"hemoglobin", "low", "iron", "deficiency">>),
                    Doc(2, <<"vitamin", "d", "normal", "range">>)>>

\* C3: after ingesting exactly the two scenario documents,
\* bm25_search("hemoglobin deficiency", top_k=1) returns exactly one hit,
\* document 1, with a score greater than 0.
C3_ScenarioReturnsDocOne ==
    ( /\ ret.op = "bm25_search"
      /\ ret.query = <<"hemoglobin", "deficiency">>
      /\ ret.top_k = 1
      /\ documents = ScenarioCorpus
      /\ IndexMatchesTable )
    => /\ ret.status = "ok"
       /\ Len(ret.hits) = 1
       /\ ret.hits[1].doc.id = 1
       /\ ret.hits[1].score > 0

\* C4: bm25_search returns at most top_k hits, each of score > 0, in
\* non-increasing score order, omits no document that scores higher than a
\* returned one, and lists documents of equal score in insertion order
\* (lower corpus index first).
C4_TopKStableRanking ==
    (ret.op = "bm25_search" /\ IndexMatchesTable) =>
        LET scores == GetScores(bm25, Tokenize(ret.query))
            hits   == ret.hits
        IN  /\ ret.status = "ok"
            /\ Len(hits) <= ret.top_k
            /\ \A k \in DOMAIN hits : hits[k].score > 0
            /\ \A k \in DOMAIN hits : hits[k].score = scores[CorpusIndex(hits[k].doc)]
            /\ \A k, h \in DOMAIN hits : k < h => hits[k].score >= hits[h].score
            /\ \A i \in DOMAIN documents :
                   (\E k \in DOMAIN hits : scores[i] > hits[k].score)
                       => \E k \in DOMAIN hits : hits[k].doc = documents[i]
            /\ \A k, h \in DOMAIN hits :
                   (k < h /\ hits[k].score = hits[h].score)
                       => CorpusIndex(hits[k].doc) < CorpusIndex(hits[h].doc)

IsSearch == ret.op \in {"bm25_search", "vector_search", "hybrid_search"}

\* C5: whenever the document table is empty or the lexical index is unbuilt,
\* bm25_search, vector_search and hybrid_search each return an empty hit
\* list and do not raise.
C5_EmptyCorpusSearchesReturnEmpty ==
    (IsSearch /\ (documents = <<>> \/ bm25 = None))
        => (ret.status = "ok" /\ ret.hits = <<>>)

\* C6: when the vector backend raises, hybrid_search (bm25_weight > 0) does
\* not raise and returns the documents of bm25_search(query, 2 * top_k)
\* truncated to top_k, in the order of that lexical ranking; and when the
\* lexical retriever yields no hit it ranks by the vector hits alone.
C6_DegradedHybridFollowsSurvivor ==
    (ret.op = "hybrid_search") =>
        /\ (~ret.backend_ok /\ ret.bm25_weight > 0) =>
              /\ ret.status = "ok"
              /\ \E b \in Bm25Search(documents, bm25, ret.query, 2 * ret.top_k) :
                    /\ b.status = "ok"
                    /\ HitDocs(ret.hits) = FirstN(HitDocs(b.hits), ret.top_k)
        /\ (ret.status = "ok" /\ ret.bm25_results = <<>> /\ ret.vector_weight > 0) =>
              \E v \in VectorSearch(documents, collection, hash_seed, ret.query,
                                    2 * ret.top_k, ret.backend_ok) :
                    HitDocs(ret.hits) = FirstN(HitDocs(v.hits), ret.top_k)

\* C7: vector_search never propagates an exception: whatever the query (the
\* empty one included) and whether or not the collection query fails, it
\* returns a list, and the list is empty when the backend call failed.
C7_VectorSearchNeverRaises ==
    (ret.op = "vector_search") =>
        /\ ret.status = "ok"
        /\ ~ret.backend_ok => ret.hits = <<>>

\* C7 witness: a vector search whose backend call failed although the
\* collection holds an entry for every document of a non-empty table.
C7_Witness ==
    /\ ret.op = "vector_search"
    /\ ~ret.backend_ok
    /\ documents # <<>>
    /\ EntryIds(collection) = {IdStr(documents[i].id) : i \in DOMAIN documents}
    /\ ret.status = "ok"
    /\ ret.hits = <<>>

\* The score of document id i in a hit list, 0 when the list lacks it.
LexicalOf(hits, i) ==
    IF \E k \in DOMAIN hits : hits[k].doc.id = i
    THEN (CHOOSE h \in SeqRange(hits) : h.doc.id = i).score
    ELSE 0

SimilarityOf(hits, i) ==
    IF \E k \in DOMAIN hits : hits[k].doc.id = i
    THEN 1000000 \div (1000 + (CHOOSE h \in SeqRange(hits) : h.doc.id = i).distance)
    ELSE 0

MaxLexical(hits) ==
    IF hits = <<>> THEN 100000 ELSE SetMax({hits[k].score : k \in DOMAIN hits})

MaxSimilarity(hits) ==
    IF hits = <<>> THEN 1000
    ELSE SetMax({SimilarityOf(hits, hits[k].doc.id) : k \in DOMAIN hits})

\* C8: for every document id in the union of the lexical and the vector hit
\* sets, fused_score = bm25_weight * (lexical score / max lexical score)
\* + vector_weight * (similarity / max similarity), similarity being
\* 1 / (1 + distance); an id absent from a side contributes 0 for it, and an
\* empty side takes 1 as its maximum, so nothing is divided by zero.
C8_FusedScoreFormula ==
    (ret.op = "hybrid_search" /\ ret.status = "ok") =>
        LET lex == ret.bm25_results
            vec == ret.vector_results
        IN  /\ DOMAIN ret.hybrid_scores = HitIds(lex) \cup HitIds(vec)
            /\ MaxLexical(lex) > 0
            /\ MaxSimilarity(vec) > 0
            /\ \A i \in HitIds(lex) \cup HitIds(vec) :
                   ret.hybrid_scores[i] =
                       ret.bm25_weight * ((LexicalOf(lex, i) * 1000) \div MaxLexical(lex))
                       + ret.vector_weight
                           * ((SimilarityOf(vec, i) * 1000) \div MaxSimilarity(vec))

\* C8 witness: a fusion over an id found by both retrievers, an id found by
\* the lexical one only and an id found by the vector one only.
C8_Witness ==
    /\ ret.op = "hybrid_search"
    /\ ret.status = "ok"
    /\ HitIds(ret.bm25_results) \cap HitIds(ret.vector_results) # {}
    /\ HitIds(ret.bm25_results) \ HitIds(ret.vector_results) # {}
    /\ HitIds(ret.vector_results) \ HitIds(ret.bm25_results) # {}

NormLexical(i) ==
    (LexicalOf(ret.bm25_results, i) * 1000) \div MaxLexical(ret.bm25_results)

NormVector(i) ==
    (SimilarityOf(ret.vector_results, i) * 1000) \div MaxSimilarity(ret.vector_results)

\* Document a is in both hit lists, document b in exactly one of them, with
\* the normalised score a has in that list.
MonotonicityPair(a, b) ==
    LET lex == HitIds(ret.bm25_results)
        vec == HitIds(ret.vector_results)
    IN  /\ a \in lex \cap vec
        /\ \/ b \in lex \ vec /\ NormLexical(b) = NormLexical(a)
           \/ b \in vec \ lex /\ NormVector(b) = NormVector(a)

\* C9: with positive weights, a document that appears in both hit lists has
\* a fused score at least that of any document that appears in only one
\* list with the same normalised score in that list.
C9_FusionMonotonicity ==
    ( /\ ret.op = "hybrid_search"
      /\ ret.status = "ok"
      /\ ret.bm25_weight > 0
      /\ ret.vector_weight > 0 )
    => \A a, b \in DOMAIN ret.hybrid_scores :
          MonotonicityPair(a, b) => ret.hybrid_scores[a] >= ret.hybrid_scores[b]

\* C9 witness: a fusion with such a pair of documents.
C9_Witness ==
    /\ ret.op = "hybrid_search"
    /\ ret.status = "ok"
    /\ ret.bm25_weight > 0
    /\ ret.vector_weight > 0
    /\ \E a, b \in DOMAIN ret.hybrid_scores : MonotonicityPair(a, b)

\* C10: hybrid_search returns at most top_k hits, in non-increasing
\* hybrid_score order, no document id twice, every hit a document of the
\* current table, and it drops none of the top_k best fused ids.
C10_HybridTopK ==
    (ret.op = "hybrid_search" /\ ret.status = "ok") =>
        LET hits == ret.hits
        IN  /\ Len(hits) <= ret.top_k
            /\ Len(hits) = Min(ret.top_k, Cardinality(DOMAIN ret.hybrid_scores))
            /\ \A k, h \in DOMAIN hits : k < h => hits[k].hybrid_score >= hits[h].hybrid_score
            /\ \A k, h \in DOMAIN hits : k # h => hits[k].doc.id # hits[h].doc.id
            /\ \A k \in DOMAIN hits : hits[k].doc \in SeqRange(documents)
            /\ \A k \in DOMAIN hits : hits[k].hybrid_score = ret.hybrid_scores[hits[k].doc.id]
            /\ \A i \in DOMAIN ret.hybrid_scores :
                   (\E k \in DOMAIN hits : ret.hybrid_scores[i] > hits[k].hybrid_score)
                       => i \in HitIds(hits)

\* C10 witness: a fusion of more than top_k ids that returned top_k hits of
\* different fused scores.
C10_Witness ==
    /\ ret.op = "hybrid_search"
    /\ ret.status = "ok"
    /\ Cardinality(DOMAIN ret.hybrid_scores) > ret.top_k
    /\ Len(ret.hits) = ret.top_k
    /\ \E k, h \in DOMAIN ret.hits : ret.hits[k].hybrid_score > ret.hits[h].hybrid_score

\* The fused score 1.0 in the unit of hybrid_scores (weights in tenths times
\* normalised scores in thousandths).
FusedOne == 10 * 1000

\* C11: with the default weights 0.6 and 0.4, every hybrid_score of the hits
\* hybrid_search returns lies in the closed range [0, 1].
C11_DefaultWeightsScoreInUnitRange ==
    (/\ ret.op = "hybrid_search"
     /\ ret.status = "ok"
     /\ ret.bm25_weight = 6
     /\ ret.vector_weight = 4) =>
        /\ \A k \in DOMAIN ret.hits :
              ret.hits[k].hybrid_score >= 0 /\ ret.hits[k].hybrid_score <= FusedOne
        /\ \A k \in DOMAIN ret.vector_results : ret.vector_results[k].distance >= 0

\* C11 witness: a default-weight fusion that returned a hit at exactly 1
\* (best in both lists) and a hit strictly between 0 and 1.
C11_Witness ==
    /\ ret.op = "hybrid_search"
    /\ ret.status = "ok"
    /\ ret.bm25_weight = 6
    /\ ret.vector_weight = 4
    /\ \E k, h \in DOMAIN ret.hits :
          /\ ret.hits[k].hybrid_score = FusedOne
          /\ ret.hits[h].hybrid_score > 0
          /\ ret.hits[h].hybrid_score < FusedOne

(***************************************************************************)
(* Claims about the storage lifecycle, checked under SpecStore.            *)
(***************************************************************************)
\* The two files hold what a completed save_index of the running instance
\* writes.
FilesHoldInstance ==
    /\ bm25_file = [exists |-> TRUE, content |-> Pickle(bm25)]
    /\ docs_file = [exists |-> TRUE, content |-> Pickle(documents)]

\* The step constructs a new instance and gets as far as load_index.
ConstructStep == ret = NoCall /\ ret'.op = "__init__" /\ ret'.status # "ValueError"

\* C12: a save_index that completes leaves the instance's index and table in
\* the two files, and a new instance constructed over files that hold a
\* completed save of the old one reports a successful load, has the same
\* number of documents and gives the same ordered bm25_search results for
\* every query and top_k.
C12_SaveLoadRoundTrip ==
    /\ []((ret.op \in {"add_documents", "save_index"} /\ ret.status = "ok")
             => FilesHoldInstance)
    /\ [][(ConstructStep /\ FilesHoldInstance) =>
             /\ ret'.status = "ok"
             /\ ret'.loaded
             /\ Len(documents') = Len(documents)
             /\ \A q \in Queries, k \in 1..MaxTopK :
                   Bm25Search(documents', bm25', q, k) = Bm25Search(documents, bm25, q, k)]_vars

\* C12 witness: a new instance that loaded a saved three-document corpus
\* another instance had ingested, and finds a hit in it.
C12_Witness ==
    /\ ret.op = "__init__"
    /\ ret.loaded
    /\ hash_seed = 2
    /\ Len(documents) = 3
    /\ FilesHoldInstance
    /\ \E r \in Bm25Search(documents, bm25, <<"Iron">>, MaxTopK) : Len(r.hits) = 2

\* The number of documents a lexical index was built over.
IndexCount(index) == IF index = None THEN 0 ELSE index.corpus_size

\* C13: the two files are written together, so wherever the process stopped,
\* a later load gives a facade whose document table and lexical index agree
\* in count.
C13_SnapshotNeverTorn ==
    (ret.op = "__init__" /\ ret.status = "ok" /\ ret.loaded) =>
        IndexCount(bm25) = Len(documents)

\* C14: a constructor that returns has loaded the table and the index only
\* if both files exist, and then both from the files; with a file missing
\* load_index returned False and the table is empty and the index unbuilt.
\* No call other than the constructor loads: get_stats, bm25_search and
\* save_index leave the table and the index as they are.
C14_LoadNeedsBothArtifacts ==
    /\ []((ret.op = "__init__" /\ ret.status = "ok") =>
            /\ ret.loaded => /\ bm25_file.exists /\ docs_file.exists
                             /\ documents = Unpickle(docs_file.content)
                             /\ bm25 = Unpickle(bm25_file.content)
            /\ ~(bm25_file.exists /\ docs_file.exists) =>
                   /\ ~ret.loaded
                   /\ documents = <<>>
                   /\ bm25 = None)
    /\ [][(ret = NoCall /\ ret'.op \in {"get_stats", "bm25_search", "save_index"})
             => UNCHANGED <<documents, bm25>>]_vars

\* C14 witness: a constructor that found the lexical index file without the
\* document file and came up empty.
C14_Witness ==
    /\ ret.op = "__init__"
    /\ ret.status = "ok"
    /\ ~ret.loaded
    /\ bm25_file.exists
    /\ bm25_file.content.intact
    /\ ~docs_file.exists
    /\ documents = <<>>
    /\ bm25 = None

\* Both files exist and one of them cannot be unpickled.
ArtifactCorrupt ==
    /\ bm25_file.exists
    /\ docs_file.exists
    /\ ~bm25_file.content.intact \/ ~docs_file.content.intact

\* C15: with a corrupt file the constructor does not raise: load reports
\* failure and the facade starts with an empty table and an unbuilt index.
C15_CorruptArtifactStartsEmpty ==
    (ret.op = "__init__" /\ ret.status # "ValueError" /\ ArtifactCorrupt) =>
        /\ ret.status = "ok"
        /\ ~ret.loaded
        /\ documents = <<>>
        /\ bm25 = None

\* The ids of the document table, as the collection keys them.
TableIds == {IdStr(documents[i].id) : i \in DOMAIN documents}

\* C16: after an ingest that returned, also one whose delete_collection
\* failed, the collection holds no entry of an earlier corpus: every entry
\* has the id and the text of a document of the table, and when no batch was
\* refused there is exactly one entry per document id.
C16_CollectionHoldsLatestCorpusOnly ==
    (ret.op = "add_documents" /\ ret.status = "ok") =>
        /\ \A e \in collection.entries :
              \E i \in DOMAIN documents :
                 /\ e.id = IdStr(documents[i].id)
                 /\ e.document = documents[i].content
        /\ ret.env.failed = {} =>
              /\ EntryIds(collection) = TableIds
              /\ Cardinality(collection.entries) = Cardinality(TableIds)

\* The in-memory table and index, the collection and the two files.
corpus_vars == <<documents, bm25, collection, bm25_file, docs_file>>

\* C17: add_documents with a list that holds a document without a required
\* field fails with an error and changes nothing: the table, the lexical
\* index, the collection and the files are as before the call.
C17_MalformedIngestIsAtomic ==
    [][(/\ ret = NoCall
        /\ ret'.op = "add_documents"
        /\ \E i \in DOMAIN ret'.docs : ~WellFormed(ret'.docs[i]))
          => /\ ret'.status # "ok"
             /\ UNCHANGED corpus_vars]_vars

\* C18: add_documents(D) leaves D as the document table whatever the table
\* was, and a second add_documents(D) leaves get_stats() as the first left
\* it: total_documents always, collection_count when the first call filled
\* the collection and the second is refused no batch.
C18_IngestReplacesAndIsIdempotent ==
    [][(ret = NoCall /\ ret'.op = "add_documents") =>
          /\ documents' = ret'.docs
          /\ ret'.docs = documents =>
                /\ Len(documents') = Len(documents)
                /\ (/\ collection.exists
                    /\ EntryIds(collection) = TableIds
                    /\ ~ret'.env.create_fails
                    /\ ret'.env.failed = {}) =>
                       GetStats(documents', collection', TRUE)
                          = GetStats(documents, collection, TRUE)]_vars

\* C18 witness: three documents ingested by an earlier process (their
\* embeddings are those of its hash seed) and ingested again by this one, the
\* delete having failed: still one entry per document.
C18_Witness ==
    /\ ret.op = "add_documents"
    /\ ret.status = "ok"
    /\ ret.env.delete_fails
    /\ ret.env.failed = {}
    /\ hash_seed = 2
    /\ Len(documents) = 3
    /\ EntryIds(collection) = TableIds
    /\ Cardinality(collection.entries) = 3
    /\ \A e \in collection.entries : e.embedding = Embed(1, e.document)

\* Three batches of one document each, as the loop of line 206 would cut
\* them from a longer list.
ThreeBatches == <<<<PoolDoc(1)>>, <<PoolDoc(2)>>, <<PoolDoc(3)>>>>

\* C19: when collection.add refuses batches, the loop still adds every other
\* batch, and add_documents (its list well formed, its collection created,
\* its files written) returns without raising, with the lexical index built
\* over the whole list and saved, so that bm25_search ranks the new corpus.
C19_BatchFailureKeepsLexicalIndex ==
    (/\ ret.op = "add_documents"
     /\ ret.env.failed # {}
     /\ ~ret.env.create_fails
     /\ ret.env.save = "saved"
     /\ \A i \in DOMAIN ret.docs : WellFormed(ret.docs[i])) =>
        /\ ret.status = "ok"
        /\ documents = ret.docs
        /\ bm25 = BM25Okapi(TokenizedCorpus(ret.docs))
        /\ bm25.corpus_size = Len(ret.docs)
        /\ FilesHoldInstance
        /\ \A q \in Queries, k \in 1..MaxTopK :
              \A r \in Bm25Search(documents, bm25, q, k) :
                 /\ r.status = "ok"
                 /\ \A h \in DOMAIN r.hits : r.hits[h].doc \in SeqRange(ret.docs)
        /\ \A failed \in SUBSET DOMAIN ThreeBatches :
              EntryIds(AddBatches(EmptyCollection, hash_seed, ThreeBatches, 1, failed))
                 = {IdStr(ThreeBatches[k][1].id) : k \in DOMAIN ThreeBatches \ failed}

\* C19 witness: an ingest of three documents whose only batch was refused:
\* the collection is empty, the call returned, and bm25_search finds the new
\* documents.
C19_Witness ==
    /\ ret.op = "add_documents"
    /\ ret.status = "ok"
    /\ ret.env.failed = {1}
    /\ Len(documents) = 3
    /\ collection.entries = {}
    /\ \E r \in Bm25Search(documents, bm25, <<"hemoglobin", "deficiency">>, 1) :
          Len(r.hits) = 1

\* C20: initialize_lab_reference_data called with a non-empty document table
\* changes nothing: the table, the lexical index, the collection and the
\* files are as before the call.
C20_BootstrapIsNoOpWhenLoaded ==
    [][(/\ ret = NoCall
        /\ ret'.op = "initialize_lab_reference_data"
        /\ documents # <<>>)
          => /\ UNCHANGED corpus_vars
             /\ ret'.made = 0]_vars

\* C20 witness: a later process that loaded three documents, called the
\* bootstrap and had process_book never run.
C20_Witness ==
    /\ ret.op = "initialize_lab_reference_data"
    /\ ret.status = "ok"
    /\ ret.made = 0
    /\ hash_seed = 2
    /\ Len(documents) = 3
    /\ FilesHoldInstance

C22_EmbeddingSameAcrossProcesses ==
    collection.exists =>
        \A e \in collection.entries : e.embedding = Embed(hash_seed, e.document)

\* C27: in every state of the instance, also after an add_documents that
\* raised part-way and after a load, the lexical index is the one built over
\* the current document table (no index when the table is empty).
C27_IndexAlwaysOverCurrentTable ==
    IF documents = <<>> THEN bm25 = None ELSE IndexMatchesTable

\* C24: on a corpus whose index and collection are in step with the table
\* and with the backend answering, a search with top_k greater than the
\* number of documents does not raise and returns exactly one hit per
\* document.
C24_TopKBeyondCorpusReturnsAll ==
    ( /\ IsSearch
      /\ ret.top_k > Len(documents)
      /\ IndexMatchesTable
      /\ collection.exists
      /\ EntryIds(collection) = TableIds
      /\ Cardinality(collection.entries) = Len(documents)
      /\ ret.op # "bm25_search" => ret.backend_ok )
    => /\ ret.status = "ok"
       /\ Len(ret.hits) = Len(documents)

\* C29: for chunk_size > overlap >= 0, chunk k of chunk_text (counted from 0)
\* is the words from index k * (chunk_size - overlap) up to chunk_size words
\* further or the end of the text; two consecutive chunks of chunk_size words
\* have exactly overlap word positions in common, the tail of one being the
\* head of the next; a text without a word gives no chunk, and no chunk is
\* the empty string.
C29_ChunkStartsAndOverlap ==
    (ChunkCalled /\ chunk_size > overlap) =>
        LET words == Split(text)
            step  == chunk_size - overlap
            cs    == chunk_ret.chunks
            first(k) == (k - 1) * step + 1
            last(k)  == Min((k - 1) * step + chunk_size, Len(words))
        IN  /\ chunk_ret.status = "ok"
            /\ \A k \in DOMAIN cs :
                  /\ first(k) <= Len(words)
                  /\ WordsOf(cs[k]) = [p \in 1..(last(k) - first(k) + 1) |->
                                          words[first(k) + p - 1]]
                  /\ cs[k] # <<>>
            /\ \A k \in DOMAIN cs :
                  (/\ k + 1 \in DOMAIN cs
                   /\ Len(WordsOf(cs[k])) = chunk_size
                   /\ Len(WordsOf(cs[k + 1])) = chunk_size)
                  => /\ Cardinality((first(k)..last(k)) \cap
                                    (first(k + 1)..last(k + 1))) = overlap
                     /\ LastN(WordsOf(cs[k]), overlap)
                          = FirstN(WordsOf(cs[k + 1]), overlap)
            /\ words = <<>> => cs = <<>>

\* C29 witness: chunk_size 2 and overlap 1 on a text of three words, with
\* blanks around them: three chunks, the first two of full length and
\* sharing their middle word.
C29_Witness ==
    /\ ChunkCalled
    /\ chunk_size = 2
    /\ overlap = 1
    /\ Len(Split(text)) = 3
    /\ Len(chunk_ret.chunks) = 3
    /\ Len(WordsOf(chunk_ret.chunks[2])) = 2
    /\ WordsOf(chunk_ret.chunks[1])[2] = WordsOf(chunk_ret.chunks[2])[1]

\* C29 second case: a text of blanks only gives no chunk.
C29_WitnessBlank ==
    /\ ChunkCalled
    /\ chunk_size > overlap
    /\ text = <<" ", " ">>
    /\ chunk_ret.chunks = <<>>

(***************************************************************************)
(* Claims about the query surface, checked under SpecQuery.                *)
(***************************************************************************)
\* The call of query ended as the search outcome r makes it end: with r's
\* exception, or returning r's hits as retrieved_docs.
QueryReturned(r) ==
    \/ r.status # "ok" /\ ret.status = r.status
    \/ r.status = "ok" /\ ret.status = "ok" /\ ret.retrieved_docs = r.hits

RanBm25Search ==
    \E r \in Bm25Search(documents, bm25, ret.query, ret.top_k) : QueryReturned(r)

RanVectorSearch ==
    \E r \in VectorSearch(documents, collection, hash_seed, ret.query, ret.top_k,
                          ret.backend_ok) : QueryReturned(r)

RanHybridSearch ==
    \E r \in HybridSearch(documents, bm25, collection, hash_seed, ret.query,
                          ret.top_k, DefaultBm25Weight, DefaultVectorWeight,
                          ret.backend_ok) : QueryReturned(r)

QueryOps == {"bm25_search", "vector_search", "hybrid_search",
             "get_reference_context", "get_stats"}

\* C26: a call of bm25_search, vector_search, hybrid_search,
\* get_reference_context or get_stats, whatever its arguments and outcome,
\* leaves the document table, the lexical index, the collection and the two
\* files as they were.
C26_QueriesLeaveCorpusUnchanged ==
    [][(ret = NoCall /\ ret'.op \in QueryOps) => UNCHANGED corpus_vars]_vars

\* C26 witness: a get_stats answered over an ingested, saved corpus of three
\* documents whose collection holds them.
C26_Witness ==
    /\ ret.op = "get_stats"
    /\ ret.status = "ok"
    /\ ret.total_documents = 3
    /\ ret.collection_count = 3
    /\ bm25 # None
    /\ docs_file.exists

\* The searches get_reference_context made were hybrid_search(test, top_k)
\* for the test names in order, with the default weights.
PerTestAreHybridSearches ==
    /\ Len(ret.per_test) <= Len(ret.test_names)
    /\ \A i \in DOMAIN ret.per_test :
          ret.per_test[i] \in
              HybridSearch(documents, bm25, collection, hash_seed,
                           ret.test_names[i], ret.top_k, DefaultBm25Weight,
                           DefaultVectorWeight, ret.backend[i])

\* The hits of the searches one after the other, first test first.
RECURSIVE Concatenated(_, _)
Concatenated(per_test, i) ==
    IF i > Len(per_test) THEN <<>>
    ELSE per_test[i].hits \o Concatenated(per_test, i + 1)

\* C30: get_reference_context that returns gives the hits of
\* hybrid_search(test, top_k) for each test name, in order, without
\* duplicates by content: no two returned hits have the same content, each
\* returned hit is the first hit of its content in the concatenation, the
\* returned hits are in the order of those first occurrences, and every
\* content some search returned is returned.
C30_ReferenceContextIsDeduplicated ==
    (ret.op = "get_reference_context" /\ ret.status = "ok") =>
        LET all      == Concatenated(ret.per_test, 1)
            out      == ret.hits
            First(c) == CHOOSE p \in DOMAIN all :
                           /\ all[p].doc.content = c
                           /\ \A q \in 1..(p - 1) : all[q].doc.content # c
        IN  /\ PerTestAreHybridSearches
            /\ Len(ret.per_test) = Len(ret.test_names)
            /\ \A i, j \in DOMAIN out :
                  i # j => out[i].doc.content # out[j].doc.content
            /\ \A i \in DOMAIN out :
                  /\ \E p \in DOMAIN all : all[p].doc.content = out[i].doc.content
                  /\ out[i] = all[First(out[i].doc.content)]
            /\ \A i, j \in DOMAIN out :
                  i < j => First(out[i].doc.content) < First(out[j].doc.content)
            /\ \A p \in DOMAIN all :
                  \E i \in DOMAIN out : out[i].doc.content = all[p].doc.content

\* C30 witness: two test names whose searches both returned the document
\* "Iron low" with different fused scores, and over the corpus that holds
\* that content twice; one hit of that content is returned, the first.
C30_Witness ==
    /\ ret.op = "get_reference_context"
    /\ ret.status = "ok"
    /\ Len(ret.test_names) = 2
    /\ documents = IronTwice
    /\ Len(Concatenated(ret.per_test, 1)) = 4
    /\ Len(ret.hits) = 1
    /\ \E p \in DOMAIN ret.per_test[2].hits :
          ret.per_test[2].hits[p].hybrid_score # ret.hits[1].hybrid_score

(***************************************************************************)
(* Claims about concurrent and stepwise ingests, checked under SpecRace.   *)
(***************************************************************************)
\* The lexical index add_documents builds over a list.
IndexOver(docs) == BM25Okapi([i \in DOMAIN docs |-> Tokenize(docs[i].content)])

\* The calls that have begun.
Begun == {t \in Threads : calls[t].pc # "idle"}

\* Every part of the state was produced by one of the calls made: the table
\* is the argument of one, the index and each file hold what one built or
\* was handed, and every collection entry is a document of one.
EachPartFromSomeCall ==
    /\ Begun # {} => \E t \in Begun : documents = calls[t].docs
    /\ bm25 # None => \E t \in Begun : bm25 = IndexOver(calls[t].docs)
    /\ bm25_file.exists =>
          \E t \in Begun : bm25_file.content = Pickle(IndexOver(calls[t].docs))
    /\ docs_file.exists =>
          \E t \in Begun : docs_file.content = Pickle(calls[t].docs)
    /\ \A e \in collection.entries :
          \E t \in Begun : \E i \in DOMAIN calls[t].docs :
             /\ "id" \in DOMAIN calls[t].docs[i]
             /\ e.id = IdStr(calls[t].docs[i].id)
             /\ e.document = calls[t].docs[i].content

\* C25: add_documents has no mutual exclusion: while one call is anywhere
\* between its first and its last statement, another thread can begin its
\* own call and every call in progress can take its next step; each part of
\* the state then comes from one of the calls, not necessarily the same one.
C25_IngestIsUnguarded ==
    /\ \A t \in Threads : ~Ended(calls[t]) => ENABLED Step(t)
    /\ EachPartFromSomeCall

\* C25 witness: both calls have returned, their corpora differ, and the
\* collection holds a document that is not in the table, the in-memory index
\* is not the one over the table, and bm25_index.pkl holds the index of one
\* call beside the documents.pkl of the other.
C25_Witness ==
    /\ \A t \in Threads : calls[t].pc = "done"
    /\ calls[1].docs # calls[2].docs
    /\ \E e \in collection.entries :
          \A i \in DOMAIN documents : e.id # IdStr(documents[i].id)
    /\ bm25 # IndexOver(documents)
    /\ docs_file.content = Pickle(calls[1].docs)
    /\ bm25_file.content = Pickle(IndexOver(calls[2].docs))
    /\ bm25_file.content # Pickle(IndexOver(calls[1].docs))
    /\ docs_file.content = Pickle(documents)

\* C28: within one add_documents the lexical index is rebuilt before the
\* first batch is handed to the collection: a call that has been through a
\* batch has its index built already.
C28_LexicalIndexBeforeBatches ==
    \A t \in Threads :
        (calls[t].pc # "idle" /\ calls[t].i > 1) =>
            calls[t].pc \in {"write_bm25", "write_docs", "done"}

=============================================================================
